---- MODULE Spec2Model ----
(***************************************************************************)
(* garmindl.py: download_activities as a state machine.                    *)
(*                                                                         *)
(* Strings and byte strings are sequences of one-character strings, so     *)
(* slicing, lower-casing, suffix tests and concatenation are computed.     *)
(* The remote service, the zipfile library and the filesystem are the      *)
(* environment: what they answer is chosen nondeterministically, and every *)
(* call made to them is recorded in `calls`, every printed line in `out`.  *)
(***************************************************************************)
EXTENDS Integers, Sequences, FiniteSets, TLC

\* Longest listing the remote service returns in this model.
MaxN == 2
\* Largest value of the --limit argument in this model.
MaxLimit == 1

-----------------------------------------------------------------------------
(* Characters and strings *)

UpperChars == <<"A","B","C","D","E","F","G","H","I","J","K","L","M",
                "N","O","P","Q","R","S","T","U","V","W","X","Y","Z">>
LowerChars == <<"a","b","c","d","e","f","g","h","i","j","k","l","m",
                "n","o","p","q","r","s","t","u","v","w","x","y","z">>
DigitChars == <<"0","1","2","3","4","5","6","7","8","9">>

Range(f) == {f[k] : k \in DOMAIN f}

IsDigit(c) == c \in Range(DigitChars)
IsAlnum(c) == c \in Range(UpperChars) \cup Range(LowerChars) \cup Range(DigitChars)
DigitVal(c) == CHOOSE v \in 0..9 : DigitChars[v + 1] = c

\* str.lower(), one character and a whole string
ToLower(c) ==
    IF c \in Range(UpperChars)
    THEN LowerChars[CHOOSE k \in DOMAIN UpperChars : UpperChars[k] = c]
    ELSE c
LowerStr(s) == [k \in 1..Len(s) |-> ToLower(s[k])]

\* s[:n]
Take(s, n) == SubSeq(s, 1, IF Len(s) < n THEN Len(s) ELSE n)

\* s.endswith(suf)
EndsWith(s, suf) ==
    /\ Len(s) >= Len(suf)
    /\ SubSeq(s, Len(s) - Len(suf) + 1, Len(s)) = suf

\* s.startswith(pre)
StartsWith(s, pre) == Len(s) >= Len(pre) /\ SubSeq(s, 1, Len(pre)) = pre

\* f"{n}" for a non-negative int
RECURSIVE DecStr(_)
DecStr(n) == IF n < 10 THEN <<DigitChars[n + 1]>>
             ELSE DecStr(n \div 10) \o <<DigitChars[(n % 10) + 1]>>

\* value of a string of digits
RECURSIVE DecVal(_)
DecVal(s) == IF s = <<>> THEN 0
             ELSE 10 * DecVal(SubSeq(s, 1, Len(s) - 1)) + DigitVal(s[Len(s)])

AllDigits(s) == \A k \in 1..Len(s) : IsDigit(s[k])

\* strftime's %m and %d: two digits, zero padded
Pad2(n) == IF n < 10 THEN <<"0">> \o DecStr(n) ELSE DecStr(n)

-----------------------------------------------------------------------------
(* Filename: lines 94-112 *)

\* A value read from the activity dict: k says whether the key is absent, holds
\* None (a JSON null) or holds a string; v is the string.
Absent == [k |-> "absent", v |-> <<>>]
Null == [k |-> "null", v |-> <<>>]
Str(s) == [k |-> "str", v |-> s]

\* activity.get(key, default)
Get(field, default) == IF field.k = "absent" THEN Str(default) ELSE field

Unnamed == <<"U","n","n","a","m","e","d">>
Unknown == <<"U","n","k","n","o","w","n">>
unknown_date == <<"u","n","k","n","o","w","n","_","d","a","t","e">>

\* Lines 94-97 raise for a record without 'activityId' (KeyError), with a None
\* name (TypeError at line 101) or a None activityType (AttributeError).  These
\* lines are outside the inner try.
MetaFault(activity) ==
    \/ activity.activityId.k = "absent"
    \/ Get(activity.activityName, Unnamed).k = "null"
    \/ activity.activityType = "null"

\* str.strip() of a string that holds no whitespace but spaces
RECURSIVE Strip(_)
Strip(s) ==
    IF s = <<>> THEN s
    ELSE IF Head(s) = " " THEN Strip(Tail(s))
    ELSE IF s[Len(s)] = " " THEN Strip(SubSeq(s, 1, Len(s) - 1))
    ELSE s

KeepChar(c) == IsAlnum(c) \/ c \in {" ", "-", "_"}

\* lines 101-102
SafeName(activity_name) ==
    LET kept == Strip(SelectSeq(activity_name, KeepChar))
    IN  [k \in 1..Len(kept) |-> IF kept[k] = " " THEN "_" ELSE kept[k]]

IsLeap(y) == (y % 4 = 0 /\ y % 100 # 0) \/ y % 400 = 0
DaysIn(y, m) ==
    IF m = 2 THEN (IF IsLeap(y) THEN 29 ELSE 28)
    ELSE IF m \in {4, 6, 9, 11} THEN 30 ELSE 31

\* datetime.strptime(s, "%Y-%m-%d"): four digits, '-', a month of one or two
\* digits, '-', a day of one or two digits, nothing after; then a real date.
\* The result is the set of (year, month, day) readings: empty on ValueError.
StrpDate(s) ==
    LET Reading(ml) ==
            <<DecVal(SubSeq(s, 1, 4)), DecVal(SubSeq(s, 6, 5 + ml)),
              DecVal(SubSeq(s, 7 + ml, Len(s)))>>
        Shaped(ml) ==
            /\ Len(s) - 6 - ml \in {1, 2}
            /\ AllDigits(SubSeq(s, 1, 4))
            /\ s[5] = "-"
            /\ AllDigits(SubSeq(s, 6, 5 + ml))
            /\ s[6 + ml] = "-"
            /\ AllDigits(SubSeq(s, 7 + ml, Len(s)))
        Real(ymd) ==
            /\ ymd[1] >= 1
            /\ ymd[2] \in 1..12
            /\ ymd[3] >= 1
            /\ ymd[3] <= DaysIn(ymd[1], ymd[2])
    IN  { Reading(ml) : ml \in { l \in {1, 2} : Shaped(l) /\ Real(Reading(l)) } }

\* lines 105-109: a None start time raises TypeError in the slice, a bad string
\* ValueError in strptime; the bare except turns both into the sentinel.
DateStr(activity_date) ==
    IF activity_date.k # "str" THEN unknown_date
    ELSE LET parsed == StrpDate(Take(activity_date.v, 10))
         IN  IF parsed = {} THEN unknown_date
             ELSE LET ymd == CHOOSE t \in parsed : TRUE
                  IN  DecStr(ymd[1]) \o Pad2(ymd[2]) \o Pad2(ymd[3])

\* lines 111-112; every file lands in the one output directory, so the path is
\* identified by the filename.
Filename(activity, file_format) ==
    DateStr(Get(activity.startTimeLocal, Unknown))
      \o <<"_">> \o DecStr(activity.activityId.v)
      \o <<"_">> \o SafeName(Get(activity.activityName, Unnamed).v)
      \o <<".">> \o file_format

-----------------------------------------------------------------------------
(* Format resolution: lines 124-148 *)

gpx == <<"g","p","x">>
tcx == <<"t","c","x">>
fit == <<"f","i","t">>
original == <<"o","r","i","g","i","n","a","l">>
Formats == {gpx, tcx, fit, original}

\* dl_fmt of the one download call
DlFmt(file_format) ==
    IF LowerStr(file_format) = gpx THEN "GPX"
    ELSE IF LowerStr(file_format) = tcx THEN "TCX"
    ELSE "ORIGINAL"

PK == <<"P","K">>
DotFit == <<".","f","i","t">>

\* zip_ref.namelist(): the entries' names, in archive order
Namelist(entries) == [k \in 1..Len(entries) |-> entries[k].name]

\* line 138
FitFiles(entries) ==
    SelectSeq(Namelist(entries), LAMBDA f : EndsWith(LowerStr(f), DotFit))

\* zip_ref.read(name): zipfile looks the member up by name, and its name table
\* keeps the last entry of that name.
ZipRead(entries, name) ==
    entries[CHOOSE k \in 1..Len(entries) :
              /\ entries[k].name = name
              /\ \A j \in (k + 1)..Len(entries) : entries[j].name # name].content

\* lines 124-148 after the download call returned `payload`:
\* [raised, warned, data].  payload.zip is what zipfile.ZipFile makes of the
\* bytes: "bad" (BadZipFile) or "ok" with payload.entries.
Resolve(file_format, payload) ==
    IF LowerStr(file_format) = fit /\ Take(payload.bytes, 2) = PK
    THEN IF payload.zip = "bad"
         THEN [raised |-> TRUE, warned |-> FALSE, data |-> <<>>]
         ELSE LET fit_files == FitFiles(payload.entries)
              IN  IF fit_files # <<>>
                  THEN [raised |-> FALSE, warned |-> FALSE,
                        data |-> ZipRead(payload.entries, fit_files[1])]
                  ELSE [raised |-> FALSE, warned |-> TRUE, data |-> payload.bytes]
    ELSE [raised |-> FALSE, warned |-> FALSE, data |-> payload.bytes]

\* lines 84-86
Truncate(listed, limit) ==
    IF limit.set /\ limit.val # 0 /\ limit.val < Len(listed)
    THEN IF limit.val > 0
         THEN SubSeq(listed, 1, limit.val)
         ELSE IF Len(listed) + limit.val > 0
              THEN SubSeq(listed, 1, Len(listed) + limit.val)
              ELSE <<>>
    ELSE listed

-----------------------------------------------------------------------------
(* The remote account: activities, and the original files the service stores *)

\* bytes is the payload of an ORIGINAL download; zip and entries are what
\* zipfile makes of those bytes.
Entry(name, content) == [name |-> name, content |-> content]
PlainFit == [bytes |-> <<"F">>, zip |-> "none", entries |-> <<>>]
BadZip == [bytes |-> PK, zip |-> "bad", entries |-> <<>>]
Zip(entries) == [bytes |-> PK \o <<"z">>, zip |-> "ok", entries |-> entries]
ZipWithFit ==
    Zip(<< Entry(<<"m",".","j","s","o","n">>, <<"J">>),
           Entry(<<"B",".","F","I","T">>, <<"X">>),
           Entry(<<"a",".","f","i","t">>, <<"Y">>) >>)
ZipNoFit ==
    [bytes |-> PK \o <<"n">>, zip |-> "ok",
     entries |-> << Entry(<<"f","i","t",".","t","x","t">>, <<"J">>) >>]

\* What the service converts an activity to for GPX and TCX
Track == [bytes |-> <<"<">>, zip |-> "none", entries |-> <<>>]

\* Most entries of an archive in the model of archives.
MaxEntries == 2

EntryNames == { <<"a",".","f","i","t">>, <<"B",".","F","I","T">>,
                <<"m",".","j","s","o","n">>, <<"f","i","t">> }
EntryContents == { <<"X">>, <<"Y">> }
Archives ==
    UNION { [1..n -> [name : EntryNames, content : EntryContents]] : n \in 0..MaxEntries }

\* Original files: not an archive (also shorter than the signature), a PK
\* payload zipfile cannot open, and every archive of the model.
Originals ==
    { PlainFit, BadZip,
      [bytes |-> <<>>, zip |-> "none", entries |-> <<>>],
      [bytes |-> <<"P">>, zip |-> "none", entries |-> <<>>] }
      \cup { Zip(e) : e \in Archives }

Id(n) == [k |-> "int", v |-> n]
NoId == [k |-> "absent", v |-> 0]

Activity(id, name, start, type) ==
    [activityId |-> id, activityName |-> name, startTimeLocal |-> start,
     activityType |-> type]

Jan5 == <<"2","0","2","4","-","0","1","-","0","5"," ","0","7">>
Feb29 == <<"2","0","2","4","-","0","2","-","2","9">>
NotADate == <<"n","o","t","-","a","-","d","a","t","e">>

\* The account's activities; a listing names them by their place here.  The
\* last four are malformed: a None start time, a None name, no id, a None
\* activityType.
Records ==
    << Activity(Id(1), Str(<<" ","a"," ","b","!">>), Str(Jan5), "dict"),
       Activity(Id(2), Absent, Str(NotADate), "absent"),
       Activity(Id(3), Str(<<"c">>), Absent, "dict"),
       Activity(Id(4), Str(<<"d">>), Str(Feb29), "dict"),
       Activity(Id(5), Str(<<"e">>), Null, "dict"),
       Activity(Id(6), Null, Str(Jan5), "dict"),
       Activity(NoId, Str(<<"g">>), Str(Jan5), "dict"),
       Activity(Id(7), Str(<<"h">>), Str(Jan5), "null") >>

Activities == DOMAIN Records

\* The activities whose download the program can reach
Good == { a \in Activities :
            /\ Records[a].activityId.k = "int"
            /\ Records[a].activityName.k # "null"
            /\ Records[a].startTimeLocal.k # "null"
            /\ Records[a].activityType # "null" }

\* The original files of the account in the program's runs
Stored == <<ZipWithFit, PlainFit, ZipNoFit, BadZip>>

\* A listing holds each activity once.
Listings ==
    UNION { {l \in [1..n -> Activities] : \A a, b \in 1..n : a # b => l[a] # l[b]}
            : n \in 0..MaxN }

\* limit: None, or an int (argparse type=int accepts any)
NoLimit == [set |-> FALSE, val |-> 0]
Limits == {NoLimit} \cup {[set |-> TRUE, val |-> v] : v \in -1..MaxLimit}

-----------------------------------------------------------------------------
(* State *)

VARIABLES
    pc,           \* where download_activities is: start, list, loop, done, raised
    again,        \* TRUE in the second invocation on the same output directory
    listed,       \* what get_activities_by_date returns
    stored,       \* the original file the service stores for each activity
    file_format,  \* argument
    limit,        \* argument
    service,      \* how the service answers login and the listing call
    reach,        \* per activity: does the service serve its download
    activities,   \* local: the listing after the limit
    i,            \* local: enumerate's counter, from 1
    downloaded, skipped, errors,
    files,        \* the output directory: filename -> bytes
    files0,       \* the output directory when this invocation began
    calls,        \* this invocation's calls to collaborators, with results
    out,          \* this invocation's printed lines
    out0          \* the previous invocation's printed lines

vars == <<pc, again, listed, stored, file_format, limit, service, reach, activities, i,
          downloaded, skipped, errors, files, files0, calls, out, out0>>

args == <<listed, stored, file_format, limit>>
counters == <<downloaded, skipped, errors>>

Call(op, n, arg, res) == [op |-> op, i |-> n, arg |-> arg, res |-> res]
Line(ev, n) == [ev |-> ev, i |-> n]

\* lines 161-168
SummaryLine ==
    [ev |-> "Summary", i |-> 0, total |-> Len(activities),
     downloaded |-> downloaded, skipped |-> skipped, errors |-> errors]

EmptyDir == [p \in {} |-> <<>>]

\* The payload the service sends for activity a in a download format
Payload(a, dl_fmt) == IF dl_fmt = "ORIGINAL" THEN stored[a] ELSE Track

\* The remote is deterministic: an answer not yet given is any of `answers`,
\* one already given is given again.
Answers(known, answers) == IF known = "unasked" THEN answers ELSE {known}

\* The state when the program is first run: empty output directory
Start(listings, originals, formats, limits) ==
    /\ pc = "start"
    /\ again = FALSE
    /\ listed \in listings
    /\ stored \in originals
    /\ file_format \in formats
    /\ limit \in limits
    /\ service = [login |-> "unasked", list |-> "unasked"]
    /\ reach = [a \in Good |-> "unasked"]
    /\ activities = <<>>
    /\ i = 1
    /\ downloaded = 0 /\ skipped = 0 /\ errors = 0
    /\ files = EmptyDir
    /\ files0 = EmptyDir
    /\ calls = <<>>
    /\ out = <<>>
    /\ out0 = <<>>

Init == Start(Listings, {Stored}, Formats, Limits)

\* One listed activity, in fit format, its original file any of Originals
InitArchive ==
    Start({<<1>>}, {[Stored EXCEPT ![1] = p] : p \in Originals}, {fit}, {NoLimit})

-----------------------------------------------------------------------------
(* download_activities *)

\* AfterLogin with the two handlers' returns lost
AfterLoginFallsThrough(res) == "list"

\* lines 53-61: where the function goes after client.login()
AfterLogin(res) == IF res = "ok" THEN "list" ELSE "done"

LoginLine(res) ==
    IF res = "ok" THEN Line("LoginOk", 0)
    ELSE IF res = "auth" THEN Line("AuthFailed", 0)
    ELSE Line("LoginError", 0)

\* lines 45-61.  Path.mkdir is outside every try: when it raises, so does the
\* function; with exist_ok it does nothing to the directory an earlier
\* invocation left.  login raises GarminConnectAuthenticationError ("auth") or
\* another Exception ("error"); both handlers return.
Login ==
    /\ pc = "start"
    /\ \/ /\ ~again
          /\ calls' = calls \o <<Call("mkdir", 0, "", "raise")>>
          /\ out' = out
          /\ pc' = "raised"
          /\ UNCHANGED service
       \/ \E res \in Answers(service.login, {"ok", "auth", "error"}) :
            /\ service' = [service EXCEPT !.login = res]
            /\ calls' = calls \o <<Call("mkdir", 0, "", "ok"),
                                   Call("login", 0, "", res)>>
            /\ out' = out \o <<Line("Logging", 0), LoginLine(res)>>
            /\ pc' = AfterLogin(res)
    /\ UNCHANGED <<again, args, reach, activities, i, counters, files, files0, out0>>

\* lines 63-91 and, when the listing call raises, lines 170-171
GetActivities ==
    /\ pc = "list"
    /\ \E res \in Answers(service.list, {"ok", "raise"}) :
         /\ service' = [service EXCEPT !.list = res]
         /\ calls' = calls \o <<Call("get_activities_by_date", 0, "", res)>>
         /\ IF res = "raise"
            THEN /\ out' = out \o <<Line("Fetching", 0), Line("ErrorFetching", 0)>>
                 /\ pc' = "done"
                 /\ UNCHANGED activities
            ELSE IF listed = <<>>
            THEN /\ out' = out \o <<Line("Fetching", 0), Line("NoActivities", 0)>>
                 /\ pc' = "done"
                 /\ UNCHANGED activities
            ELSE /\ activities' = Truncate(listed, limit)
                 /\ out' = out \o <<Line("Fetching", 0), Line("Found", Len(listed))>>
                             \o IF activities' # listed
                                THEN <<Line("Limiting", limit.val)>> ELSE <<>>
                 /\ pc' = "loop"
    /\ i' = 1
    /\ downloaded' = 0 /\ skipped' = 0 /\ errors' = 0
    /\ UNCHANGED <<again, args, reach, files, files0, out0>>

\* Exists looking the name up without its extension
ExistsBare(filename) == SubSeq(filename, 1, Len(filename) - 4) \in DOMAIN files

\* line 115: os.path.exists(filepath)
Exists(filename) == filename \in DOMAIN files

\* the directory after `bytes` reached the file at filename
Written(filename, bytes) ==
    [p \in DOMAIN files \cup {filename} |-> IF p = filename THEN bytes ELSE files[p]]

\* Skip that opens the file for writing before it counts
SkipTruncates(filename) ==
    /\ skipped' = skipped + 1
    /\ UNCHANGED <<downloaded, errors, reach>>
    /\ files' = [files EXCEPT ![filename] = <<>>]
    /\ calls' = calls \o <<Call("exists", i, "", "true")>>
    /\ out' = out \o <<Line("Skipping", i)>>
    /\ i' = i + 1
    /\ pc' = "loop"

\* lines 115-118
Skip(filename) ==
    /\ skipped' = skipped + 1
    /\ UNCHANGED <<downloaded, errors, files, reach>>
    /\ calls' = calls \o <<Call("exists", i, "", "true")>>
    /\ out' = out \o <<Line("Skipping", i)>>
    /\ i' = i + 1
    /\ pc' = "loop"

\* Except with the handler outside the loop: the exception ends the batch
ExceptLeavesLoop(made, printed) ==
    /\ errors' = errors + 1
    /\ UNCHANGED <<downloaded, skipped>>
    /\ calls' = calls \o made
    /\ out' = out \o printed \o <<Line("Error", i)>>
    /\ i' = i
    /\ pc' = "done"

\* lines 157-159, after the calls in `made` and the prints in `printed`
Except(made, printed) ==
    /\ errors' = errors + 1
    /\ UNCHANGED <<downloaded, skipped>>
    /\ calls' = calls \o made
    /\ out' = out \o printed \o <<Line("Error", i)>>
    /\ i' = i + 1
    /\ pc' = "loop"

\* Saved without line 154
SavedUncounted(made, printed) ==
    /\ UNCHANGED <<downloaded, skipped, errors>>
    /\ calls' = calls \o made
    /\ out' = out \o printed \o <<Line("Saved", i)>>
    /\ i' = i + 1
    /\ pc' = "loop"

\* lines 154-155, after the calls in `made` and the prints in `printed`
Saved(made, printed) ==
    /\ downloaded' = downloaded + 1
    /\ UNCHANGED <<skipped, errors>>
    /\ calls' = calls \o made
    /\ out' = out \o printed \o <<Line("Saved", i)>>
    /\ i' = i + 1
    /\ pc' = "loop"

\* lines 151-152: open(filepath, 'wb') creates the file, then write.  n = -1:
\* open raises; 0 <= n < len(data): n bytes reached the file before write (or
\* the flush on close) raised; n = len(data): the write completed.
WriteOutcomes(data) == -1..Len(data)

Save(filename, data, made, printed) ==
    \E n \in WriteOutcomes(data) :
       IF n = -1
       THEN /\ files' = files
            /\ Except(made \o <<Call("open", i, "", "raise")>>, printed)
       ELSE IF n < Len(data)
       THEN /\ files' = Written(filename, Take(data, n))
            /\ Except(made \o <<Call("open", i, "", "ok"),
                                Call("write", i, "", "raise")>>, printed)
       ELSE /\ files' = Written(filename, data)
            /\ Saved(made \o <<Call("open", i, "", "ok"),
                               Call("write", i, "", "ok")>>, printed)

\* lines 120-159 for an activity whose file does not exist
Download(a, filename) ==
    LET activity == Records[a]
        checked == <<Call("exists", i, "", "false")>>
        dl_fmt == DlFmt(file_format)
    IN  IF Get(activity.startTimeLocal, Unknown).k # "str"
        THEN \* line 121: activity_date[:10] of None raises TypeError
             /\ UNCHANGED <<files, reach>>
             /\ Except(checked, <<>>)
        ELSE \E r \in Answers(reach[a], {"ok", "raise"}) :
               /\ reach' = [reach EXCEPT ![a] = r]
               /\ IF r = "raise"
                  THEN /\ files' = files
                       /\ Except(checked \o <<Call("download", i, dl_fmt, "raise")>>,
                                 <<Line("Downloading", i)>>)
                  ELSE LET payload == Payload(a, dl_fmt)
                           got == Resolve(file_format, payload)
                           opened == LowerStr(file_format) = fit
                                       /\ Take(payload.bytes, 2) = PK
                           made == checked \o <<Call("download", i, dl_fmt, "ok")>>
                                     \o IF opened
                                        THEN <<Call("ZipFile", i, "",
                                                    IF got.raised THEN "raise" ELSE "ok")>>
                                        ELSE <<>>
                           printed == <<Line("Downloading", i)>>
                                        \o IF got.warned THEN <<Line("Warning", i)>> ELSE <<>>
                       IN  IF got.raised
                           THEN /\ files' = files
                                /\ Except(made, printed)
                           ELSE Save(filename, got.data, made, printed)

\* lines 170-171: an exception of lines 94-118 leaves the loop
Abort ==
    /\ out' = out \o <<Line("ErrorFetching", i)>>
    /\ pc' = "done"
    /\ UNCHANGED <<i, counters, files, reach, calls>>

\* lines 93-159, one iteration of the loop
ProcessActivity ==
    /\ pc = "loop"
    /\ i <= Len(activities)
    /\ LET activity == Records[activities[i]]
       IN  IF MetaFault(activity)
           THEN Abort
           ELSE LET filename == Filename(activity, file_format)
                IN  IF Exists(filename)
                    THEN Skip(filename)
                    ELSE Download(activities[i], filename)
    /\ UNCHANGED <<again, args, service, activities, files0, out0>>

\* lines 161-168
Summary ==
    /\ pc = "loop"
    /\ i > Len(activities)
    /\ out' = out \o <<SummaryLine>>
    /\ pc' = "done"
    /\ UNCHANGED <<again, args, service, reach, activities, i, counters, files,
                   files0, calls, out0>>

\* lines 215-223: after the function returned, the program is run once more
\* with the same arguments on the same output directory; the remote is as it
\* was.
RunAgain ==
    /\ pc = "done"
    /\ ~again
    /\ again' = TRUE
    /\ pc' = "start"
    /\ activities' = <<>>
    /\ i' = 1
    /\ downloaded' = 0 /\ skipped' = 0 /\ errors' = 0
    /\ files0' = files
    /\ calls' = <<>>
    /\ out0' = out
    /\ out' = <<>>
    /\ UNCHANGED <<args, service, reach, files>>

Next == Login \/ GetActivities \/ ProcessActivity \/ Summary \/ RunAgain

Spec == Init /\ [][Next]_vars

SpecArchive == InitArchive /\ [][Next]_vars

-----------------------------------------------------------------------------
(* Reading the traces *)

\* This invocation made the call op for the activity at place n, with result res
Made(op, n, res) ==
    \E k \in DOMAIN calls : calls[k].op = op /\ calls[k].i = n /\ calls[k].res = res

Times(op) == Len(SelectSeq(calls, LAMBDA c : c.op = op))

Printed(ev) == \E k \in DOMAIN out : out[k].ev = ev

SummaryLines(lines) == SelectSeq(lines, LAMBDA l : l.ev = "Summary")

\* The per-activity loop of this invocation has begun
LoopBegan == Printed("Found")

\* Places of the listing whose iteration has ended
Processed == 1..(i - 1)

\* The file of the activity at place n
PathOf(n) == Filename(Records[activities[n]], file_format)

\* Download, archive opening or file write raised for the activity at place n
Raised(n) ==
    \/ Made("download", n, "raise")
    \/ Made("ZipFile", n, "raise")
    \/ Made("open", n, "raise")
    \/ Made("write", n, "raise")

\* The activity at place n was fetched and written
Fetched(n) == Made("download", n, "ok") /\ Made("write", n, "ok")

\* The file of the activity at place n existed when the loop reached it
Existed(n) == Made("exists", n, "true")

\* No record of the listing is malformed
WellFormed == \A n \in DOMAIN activities : activities[n] \in Good

-----------------------------------------------------------------------------
(* Claims *)

\* C1: with well-formed records, whatever subset of downloads and writes
\* raises, the activities are processed once each in listing order, one that
\* follows a failure included; the run ends after the last with the summary,
\* and errors, downloaded and skipped count the activities that raised, that
\* were fetched and written, and whose file existed.
C1_FailureIsolation ==
    (pc \in {"loop", "done"} /\ LoopBegan /\ WellFormed) =>
        /\ LET checks == SelectSeq(calls, LAMBDA c : c.op = "exists")
           IN  /\ Len(checks) = i - 1
               /\ \A k \in 1..Len(checks) : checks[k].i = k
        /\ errors = Cardinality({n \in Processed : Raised(n)})
        /\ downloaded = Cardinality({n \in Processed : Fetched(n)})
        /\ skipped = Cardinality({n \in Processed : Existed(n)})
        /\ pc = "done" =>
             /\ i = Len(activities) + 1
             /\ SummaryLines(out) = <<SummaryLine>>

\* The first of two downloads raised and the second activity was fetched
C1_Witness ==
    /\ pc = "done" /\ WellFormed /\ Len(activities) = 2
    /\ Made("download", 1, "raise") /\ Fetched(2)
    /\ errors = 1 /\ downloaded = 1 /\ skipped = 0

\* The first invocation printed its summary with no errors
FirstRunClean ==
    \E k \in DOMAIN out0 : out0[k].ev = "Summary" /\ out0[k].errors = 0

C3_NoPartialFiles ==
    \A n \in DOMAIN activities : Made("write", n, "raise") => PathOf(n) \notin DOMAIN files

\* C4: a limit that is set and below the listed count keeps exactly the first
\* `limit` activities; otherwise all are kept; the summary's total is that count.
C4_LimitTruncation ==
    LET kept == IF limit.set /\ limit.val < Len(listed)
                THEN [k \in 1..limit.val |-> listed[k]]
                ELSE listed
    IN  /\ pc = "loop" => activities = kept
        /\ \A k \in DOMAIN out : out[k].ev = "Summary" => out[k].total = Len(kept)

LoginFailed == Made("login", 0, "auth") \/ Made("login", 0, "error")
ListFailed == Made("get_activities_by_date", 0, "raise")

\* C5: after a failed login the listing call is not made; after a failed login
\* or listing call there is no download call, no file is created or changed,
\* no call is repeated, and the function has returned.
C5_SetupFailuresTerminal ==
    /\ LoginFailed => Times("get_activities_by_date") = 0
    /\ (LoginFailed \/ ListFailed) =>
         /\ \A k \in DOMAIN calls :
                calls[k].op \in {"mkdir", "login", "get_activities_by_date"}
         /\ Times("login") = 1
         /\ Times("get_activities_by_date") <= 1
         /\ files = files0
         /\ pc = "done"

\* The listing call raised
C5_Witness == ListFailed /\ pc = "done" /\ Times("login") = 1

\* C6: once the loop has begun, the function ends only after every activity was
\* handled, having printed the summary exactly once.
C6_SummaryAlwaysReached ==
    (pc = "done" /\ LoopBegan) =>
        /\ i = Len(activities) + 1
        /\ Len(SummaryLines(out)) = 1

\* The entries of an archive whose names end in .fit, whatever the case
FitEntries(entries) ==
    { k \in 1..Len(entries) : EndsWith(LowerStr(entries[k].name), DotFit) }

\* What C7 says the fit format writes for an original file p that opens
FitBytes(p) ==
    IF Take(p.bytes, 2) = PK /\ FitEntries(p.entries) # {}
    THEN p.entries[CHOOSE k \in FitEntries(p.entries) :
                      \A j \in FitEntries(p.entries) : k <= j].content
    ELSE p.bytes

\* C7: in fit format a written file holds the first .fit entry of the archive,
\* or the payload itself when it has none (with a warning, without an error)
\* or is no archive; a PK payload that does not open is one error and no file.
C7_FitResolution ==
    file_format = fit =>
        \A n \in Processed :
            LET p == stored[activities[n]]
                unopened == Take(p.bytes, 2) = PK /\ p.zip = "bad"
            IN  Made("download", n, "ok") =>
                  /\ unopened => (Raised(n) /\ PathOf(n) \notin DOMAIN files)
                  /\ Made("write", n, "ok") => files[PathOf(n)] = FitBytes(p)
                  /\ (~unopened /\ Take(p.bytes, 2) = PK /\ FitEntries(p.entries) = {}) =>
                        /\ \E k \in DOMAIN out : out[k] = Line("Warning", n)
                        /\ ~Made("ZipFile", n, "raise")

\* The start time of the activity at place n does not parse
Undated(n) ==
    DateStr(Get(Records[activities[n]].startTimeLocal, Unknown)) = unknown_date

\* C8: an activity whose start time does not parse gets a file name that begins
\* with unknown_date_, does not end the run, and is skipped or downloaded as
\* any other: the only errors are those of its download and write.
C8_MalformedDateGraceful ==
    \A n \in Processed :
        (activities[n] \in Good \cup {5} /\ Undated(n)) =>
            /\ StartsWith(PathOf(n), unknown_date \o <<"_">>)
            /\ Existed(n) \/ Made("download", n, "ok") \/ Made("download", n, "raise")

\* C9: when the file of the activity reached exists, the step changes no file,
\* makes no download call and adds one to skipped alone; every download call
\* comes right after the existence check of its activity found nothing, and
\* no activity has two.
C9_SkipHasNoEffects ==
    /\ [][(/\ pc = "loop" /\ i <= Len(activities)
           /\ ~MetaFault(Records[activities[i]])
           /\ PathOf(i) \in DOMAIN files)
          => (/\ files' = files
              /\ Times("download")' = Times("download")
              /\ skipped' = skipped + 1
              /\ downloaded' = downloaded /\ errors' = errors)]_vars
    /\ [](\A k \in DOMAIN calls :
            calls[k].op = "download" =>
              /\ k > 1
              /\ calls[k - 1] = Call("exists", calls[k].i, "", "false")
              /\ \A j \in DOMAIN calls :
                    (calls[j].op = "download" /\ calls[j].i = calls[k].i) => j = k)

\* A second run skipped a file the first run wrote
C9_Witness ==
    /\ again /\ skipped = 1 /\ i = 2
    /\ PathOf(1) \in DOMAIN files /\ files[PathOf(1)] # <<>>
    /\ files = files0

\* C10: the counters are never negative and never decrease, an iteration that
\* ends adds one to exactly one of them, their sum is the number of activities
\* processed, and the summary's total is their sum.
C10_CounterInvariant ==
    /\ [](/\ downloaded >= 0 /\ skipped >= 0 /\ errors >= 0
          /\ pc = "loop" => downloaded + skipped + errors = i - 1
          /\ \A k \in DOMAIN out :
                out[k].ev = "Summary" =>
                  /\ out[k].total = Len(activities)
                  /\ out[k].total = out[k].downloaded + out[k].skipped + out[k].errors
                  /\ <<out[k].downloaded, out[k].skipped, out[k].errors>> = counters)
    /\ [][(pc = "loop" /\ pc' # "start") =>
            /\ downloaded' >= downloaded /\ skipped' >= skipped /\ errors' >= errors
            /\ i' = i + 1 =>
                 \/ counters' = <<downloaded + 1, skipped, errors>>
                 \/ counters' = <<downloaded, skipped + 1, errors>>
                 \/ counters' = <<downloaded, skipped, errors + 1>>
            /\ i' = i => counters' = counters]_vars

\* A summary after two activities, one fetched and written and one that raised
C10_Witness ==
    /\ pc = "done" /\ Printed("Summary")
    /\ downloaded = 1 /\ errors = 1 /\ Len(activities) = 2

====
